---------------------------- MODULE Spec2Model ----------------------------
(***************************************************************************)
(* Model of robust-data-processor: the ingest API's validator and queue   *)
(* producer (src/src/api/app.py) and the batch worker                     *)
(* (src/src/worker/handler.py).                                           *)
(*                                                                         *)
(* Python strings are sequences of one-character strings.  JSON / Python  *)
(* values are tagged records: [t |-> "null"], [t |-> "str", s |-> chars], *)
(* [t |-> "num", n |-> n], [t |-> "list", n |-> length],                  *)
(* [t |-> "dict", d |-> function from keys to values].                    *)
(***************************************************************************)
EXTENDS Integers, Sequences, FiniteSets, TLC

VARIABLES
    \* ---- worker process (handler.py) ----
    table,                \* module global `table`: TRUE when DYNAMODB_TABLE is set
    store,                \* the DynamoDB table: key <<tenant_id, log_id>> -> item
    now,                  \* the wall clock read by get_current_timestamp
    w_pc,                 \* position of handler(): "idle", "loop", "returned"
    event,                \* event["Records"] of the running invocation
    idx,                  \* number of records the for-loop has consumed
    batch_item_failures,  \* the list built by handler()
    w_result,             \* the value handler() returned
    trace,                \* per record of this invocation: what process_message did
    firstWrite,           \* messageId -> its first successfully written item, and how
                          \* many times the message was processed successfully
    delivered,            \* records handed to handler() so far (an empty batch counts 1)
    \* ---- queue producer (app.py send_to_sqs) ----
    SQS_QUEUE_URL,        \* module global: TRUE when the environment names a queue
    s_pc,                 \* position of send_to_sqs: "idle", "loop", "returned"
    s_payload,            \* argument payload
    max_retries,          \* argument max_retries
    attempt,              \* loop variable of `for attempt in range(max_retries)`
    sleeps,               \* durations (ms) passed to time.sleep, in call order
    sends,                \* outcomes of the send_message calls, in call order
    s_result,             \* the returned triple (<<>> while the call runs)
    calls,                \* number of send_to_sqs calls started
    \* ---- tenant validator (app.py validate_tenant_id) ----
    v_pc,                 \* "input" before the call, "done" after it
    v_tenant,             \* the argument
    v_result,             \* the returned pair
    \* ---- redactor (handler.py redact_sensitive_data) ----
    r_pc,                 \* "input", "once" (redacted), "twice" (redacted again)
    r_text,               \* the argument
    r_once,               \* redact_sensitive_data(r_text)
    r_twice,              \* redact_sensitive_data(r_once)
    \* ---- ingest endpoint (app.py ingest) ----
    i_pc,                 \* position of ingest(): "idle", "sending", "responded"
    i_request,            \* the request being handled
    i_normalized,         \* the record built by the payload handler (None: none)
    i_response,           \* the response returned: status and body
    i_enqueues,           \* send_to_sqs calls made for the request being handled
    requests,             \* number of requests received
    accepted,             \* the records answered 202, with the text submitted
    queue                 \* the messages the queue holds for the worker

worker_vars == <<table, store, now, w_pc, event, idx, batch_item_failures,
                 w_result, trace, firstWrite, delivered>>
sqs_vars == <<SQS_QUEUE_URL, s_pc, s_payload, max_retries, attempt, sleeps,
              sends, s_result, calls>>
tenant_vars == <<v_pc, v_tenant, v_result>>
redact_vars == <<r_pc, r_text, r_once, r_twice>>
ingest_vars == <<i_pc, i_request, i_normalized, i_response, i_enqueues, requests,
                 accepted, queue>>
vars == <<worker_vars, sqs_vars, tenant_vars, redact_vars, ingest_vars>>

---------------------------------------------------------------------------
\* Python / JSON values

None == [t |-> "null"]
Str(s) == [t |-> "str", s |-> s]
Num(n) == [t |-> "num", n |-> n]
List(n) == [t |-> "list", n |-> n]
Dict(d) == [t |-> "dict", d |-> d]

\* Python truthiness: `not v`
Falsy(v) ==
    \/ v.t = "null"
    \/ v.t = "str" /\ v.s = <<>>
    \/ v.t = "num" /\ v.n = 0
    \/ v.t = "list" /\ v.n = 0
    \/ v.t = "dict" /\ DOMAIN v.d = {}

\* dict.get(key, default)
Get(dict, key, default) == IF key \in DOMAIN dict.d THEN dict.d[key] ELSE default

\* Does s start with prefix p
StartsWith(s, p) == Len(s) >= Len(p) /\ SubSeq(s, 1, Len(p)) = p

RECURSIVE SumSeq(_)
SumSeq(s) == IF s = <<>> THEN 0 ELSE Head(s) + SumSeq(Tail(s))

RECURSIVE Pow2(_)
Pow2(n) == IF n = 0 THEN 1 ELSE 2 * Pow2(n - 1)

---------------------------------------------------------------------------
\* Regular expressions of redact_sensitive_data (handler.py 26-54).
\* A pattern is a sequence of atoms; an atom is a word boundary \b, the end
\* anchor $ or a character class with a greedy quantifier {min,max}
\* (max = -1: unbounded).

Digit == {"0", "1", "2", "3", "4", "5", "6", "7", "8", "9"}
Lower == {"a", "b", "c", "d", "e", "f", "g", "h", "i", "j", "k", "l", "m",
          "n", "o", "p", "q", "r", "s", "t", "u", "v", "w", "x", "y", "z"}
Upper == {"A", "B", "C", "D", "E", "F", "G", "H", "I", "J", "K", "L", "M",
          "N", "O", "P", "Q", "R", "S", "T", "U", "V", "W", "X", "Y", "Z"}
Whitespace == {" ", "\t", "\n"}
WordChar == Digit \cup Lower \cup Upper \cup {"_"}
Sep == {"-", "."} \cup Whitespace          \* [-.\s]
SsnSep == {"-"} \cup Whitespace            \* [-\s]
EmailLocal == Lower \cup Upper \cup Digit \cup {".", "_", "%", "+", "-"}
EmailDomain == Lower \cup Upper \cup Digit \cup {".", "-"}
EmailTld == Lower \cup Upper \cup {"|"}    \* [A-Z|a-z]

B == [k |-> "b"]
End == [k |-> "e"]                         \* $
C(set, min, max) == [k |-> "c", set |-> set, min |-> min, max |-> max]
D(n) == C(Digit, n, n)
Lit(ch) == C({ch}, 1, 1)
Opt(set) == C(set, 0, 1)

\* The pattern list with the closing \b of the 7-digit shape left out
phone_patterns_open ==
    << <<Lit("+"), C(Digit, 1, 2), Opt(Sep), D(3), Opt(Sep), D(3), Opt(Sep), D(4)>>,
       <<Lit("("), D(3), Lit(")"), C(Whitespace, 0, -1), D(3), Opt(Sep), D(4)>>,
       <<B, D(3), Opt(Sep), D(3), Opt(Sep), D(4), B>>,
       <<B, D(3), Opt(Sep), D(4)>> >>

phone_patterns ==
    << <<Lit("+"), C(Digit, 1, 2), Opt(Sep), D(3), Opt(Sep), D(3), Opt(Sep), D(4)>>,
       <<Lit("("), D(3), Lit(")"), C(Whitespace, 0, -1), D(3), Opt(Sep), D(4)>>,
       <<B, D(3), Opt(Sep), D(3), Opt(Sep), D(4), B>>,
       <<B, D(3), Opt(Sep), D(4), B>> >>
ssn_pattern == <<B, D(3), Opt(SsnSep), D(2), Opt(SsnSep), D(4), B>>
email_pattern ==
    <<B, C(EmailLocal, 1, -1), Lit("@"), C(EmailDomain, 1, -1), Lit("."),
      C(EmailTld, 2, -1), B>>
cc_pattern ==
    <<B, D(4), Opt(SsnSep), D(4), Opt(SsnSep), D(4), Opt(SsnSep), D(4), B>>

REDACTED == <<"[", "R", "E", "D", "A", "C", "T", "E", "D", "]">>

\* \b at position pos (between text[pos-1] and text[pos])
IsWordAt(text, p) == p >= 1 /\ p <= Len(text) /\ text[p] \in WordChar
AtBoundary(text, pos) == IsWordAt(text, pos - 1) # IsWordAt(text, pos)

\* $ at position pos: the end of the text, or just before a final newline
AtEnd(text, pos) ==
    pos = Len(text) + 1 \/ (pos = Len(text) /\ text[pos] = "\n")

\* number of consecutive characters of `set` from pos, at most max (if max >= 0)
RECURSIVE RunLen(_, _, _, _)
RunLen(text, pos, set, max) ==
    IF max = 0 \/ pos > Len(text) \/ text[pos] \notin set THEN 0
    ELSE 1 + RunLen(text, pos + 1, set, IF max < 0 THEN max ELSE max - 1)

\* End positions of the matches of atoms[i..] at pos, in the backtracking
\* order of the regex engine (greedy: longest repetition first).
RECURSIVE Ends(_, _, _, _)
RECURSIVE EndsFrom(_, _, _, _, _)
Ends(atoms, text, i, pos) ==
    IF i > Len(atoms) THEN <<pos>>
    ELSE IF atoms[i].k = "b"
         THEN IF AtBoundary(text, pos) THEN Ends(atoms, text, i + 1, pos) ELSE <<>>
    ELSE IF atoms[i].k = "e"
         THEN IF AtEnd(text, pos) THEN Ends(atoms, text, i + 1, pos) ELSE <<>>
         ELSE EndsFrom(atoms, text, i, pos,
                       RunLen(text, pos, atoms[i].set, atoms[i].max))
EndsFrom(atoms, text, i, pos, n) ==
    IF n < atoms[i].min THEN <<>>
    ELSE Ends(atoms, text, i + 1, pos + n) \o EndsFrom(atoms, text, i, pos, n - 1)

\* re.sub(pattern, '[REDACTED]', text): leftmost non-overlapping matches
RECURSIVE SubFrom(_, _, _)
SubFrom(atoms, text, pos) ==
    IF pos > Len(text) THEN <<>>
    ELSE LET e == Ends(atoms, text, 1, pos)
         IN IF e # <<>> /\ Head(e) > pos
            THEN REDACTED \o SubFrom(atoms, text, Head(e))
            ELSE <<text[pos]>> \o SubFrom(atoms, text, pos + 1)
re_sub(atoms, text) == SubFrom(atoms, text, 1)

\* re.match(pattern, text): does the pattern match at the start of text
re_match(atoms, text) == Ends(atoms, text, 1, 1) # <<>>

\* handler.py 40-52: one `redacted = re.sub(pattern, '[REDACTED]', redacted)`,
\* on the value `redacted` holds (a one-element set, so that each pass works on
\* the computed result of the pass before it)
redaction_pass(atoms, redacted) == {re_sub(atoms, x) : x \in redacted}

\* handler.py 26-54; text is a Python str (a sequence of characters)
redact_sensitive_data(text) ==
    IF text = <<>> THEN text
    ELSE LET p1 == redaction_pass(phone_patterns[1], {text})
             p2 == redaction_pass(phone_patterns[2], p1)
             p3 == redaction_pass(phone_patterns[3], p2)
             p4 == redaction_pass(phone_patterns[4], p3)
             s1 == redaction_pass(ssn_pattern, p4)
             e1 == redaction_pass(email_pattern, s1)
         IN CHOOSE redacted \in redaction_pass(cc_pattern, e1) : TRUE

---------------------------------------------------------------------------
\* Worker (handler.py)

MaxDeliveries == 3    \* records handed to handler() over all invocations
MaxClock == 1         \* largest clock reading

\* A message body as record.get("body") yields it: a Python str holding JSON
\* text (wellformed or not, `value` being what json.loads returns for it) or
\* any other Python object (`value` itself).
RawJson(v) == [py |-> "str", wellformed |-> TRUE, value |-> v]
Malformed == [py |-> "str", wellformed |-> FALSE, value |-> None]
Obj(v) == [py |-> "obj", wellformed |-> TRUE, value |-> v]

\* json.loads(message_body): the parsed value, or JSONDecodeError
json_loads(body) == [ok |-> body.wellformed, value |-> body.value]

T1 == <<"t", "1">>
T2 == <<"t", "2">>
L1 == <<"l", "1">>
L2 == <<"l", "2">>
JsonUpload == <<"j", "s", "o", "n", "_", "u", "p", "l", "o", "a", "d">>
Unknown == <<"u", "n", "k", "n", "o", "w", "n">>
TextPhone == <<"5", "5", "5", "-", "0", "1", "9", "9">>
TextHi == <<"h", "i">>

\* The queue messages the event source can deliver: messageId and body.
QueueMessages ==
    { [messageId |-> "m1", body |-> Malformed],
      [messageId |-> "m2",
       body |-> RawJson(Dict([tenant_id |-> Str(<<>>), log_id |-> Str(L1),
                              text |-> Str(TextHi), source |-> Str(JsonUpload)]))],
      [messageId |-> "m3",
       body |-> RawJson(Dict([tenant_id |-> Str(T1), text |-> Str(TextHi)]))],
      [messageId |-> "m4",
       body |-> RawJson(Dict([tenant_id |-> Str(T1), log_id |-> Str(L1),
                              text |-> Str(TextPhone), source |-> Str(JsonUpload)]))],
      [messageId |-> "m5",
       body |-> RawJson(Dict([tenant_id |-> Str(T1), log_id |-> Str(L2),
                              text |-> None, source |-> Str(JsonUpload)]))],
      [messageId |-> "m6",
       body |-> RawJson(Dict([tenant_id |-> Str(T2), log_id |-> Str(L1)]))] }

MessageIds == {m.messageId : m \in QueueMessages}

\* Batches: sequences of distinct queue messages
Batches ==
    UNION {{b \in [1..k -> QueueMessages] :
               \A i, j \in 1..k : i # j => b[i].messageId # b[j].messageId} :
           k \in 0..MaxDeliveries}

\* What table.put_item does when called: returns, or raises one of the three
\* exception classes save_to_dynamodb catches.  A request that raised on the
\* client side (BotoCoreError, e.g. a read timeout) may have been applied.
DbOutcomes ==
    { [kind |-> "ok", applied |-> TRUE],
      [kind |-> "ClientError", applied |-> FALSE],
      [kind |-> "BotoCoreError", applied |-> FALSE],
      [kind |-> "BotoCoreError", applied |-> TRUE],
      [kind |-> "Exception", applied |-> FALSE] }

\* handler.py 23-24: the clock reading, not before the previous one
get_current_timestamp == {t \in now..(now + 1) : t <= MaxClock}

\* A writer whose ClientError branch reports success
save_to_dynamodb_swallow(tenant_id, log_id, original_text, modified_data, source, db, t) ==
    IF ~table
    THEN [ok |-> FALSE, error |-> <<"DynamoDB table not configured">>, puts |-> <<>>]
    ELSE LET item == [tenant_id |-> tenant_id,
                      log_id |-> log_id,
                      source |-> source,
                      original_text |-> original_text,
                      modified_data |-> modified_data,
                      processed_at |-> t]
             put == <<[item |-> item, db |-> db]>>
         IN CASE db.kind \in {"ok", "ClientError"} ->
                   [ok |-> TRUE, error |-> <<>>, puts |-> put]
              [] db.kind = "BotoCoreError" ->
                   [ok |-> FALSE, error |-> <<"AWS SDK error">>, puts |-> put]
              [] OTHER ->
                   [ok |-> FALSE, error |-> <<"Unexpected error">>, puts |-> put]

\* A writer without the `if not table` test: table.put_item on the missing
\* table raises AttributeError, reported by the last except clause
save_to_dynamodb_unchecked(tenant_id, log_id, original_text, modified_data, source, db, t) ==
    IF ~table
    THEN [ok |-> FALSE, error |-> <<"Unexpected error">>, puts |-> <<>>]
    ELSE LET item == [tenant_id |-> tenant_id,
                      log_id |-> log_id,
                      source |-> source,
                      original_text |-> original_text,
                      modified_data |-> modified_data,
                      processed_at |-> t]
             put == <<[item |-> item, db |-> db]>>
         IN CASE db.kind = "ok" ->
                   [ok |-> TRUE, error |-> <<>>, puts |-> put]
              [] db.kind = "ClientError" ->
                   [ok |-> FALSE, error |-> <<"DynamoDB error">>, puts |-> put]
              [] db.kind = "BotoCoreError" ->
                   [ok |-> FALSE, error |-> <<"AWS SDK error">>, puts |-> put]
              [] OTHER ->
                   [ok |-> FALSE, error |-> <<"Unexpected error">>, puts |-> put]

\* A writer that calls put_item a second time after a BotoCoreError
save_to_dynamodb_retry(tenant_id, log_id, original_text, modified_data, source, db, t) ==
    IF ~table
    THEN [ok |-> FALSE, error |-> <<"DynamoDB table not configured">>, puts |-> <<>>]
    ELSE LET item == [tenant_id |-> tenant_id,
                      log_id |-> log_id,
                      source |-> source,
                      original_text |-> original_text,
                      modified_data |-> modified_data,
                      processed_at |-> t]
             put == <<[item |-> item, db |-> db]>>
         IN CASE db.kind = "ok" ->
                   [ok |-> TRUE, error |-> <<>>, puts |-> put]
              [] db.kind = "ClientError" ->
                   [ok |-> FALSE, error |-> <<"DynamoDB error">>, puts |-> put]
              [] db.kind = "BotoCoreError" ->
                   [ok |-> FALSE, error |-> <<"AWS SDK error">>, puts |-> put \o put]
              [] OTHER ->
                   [ok |-> FALSE, error |-> <<"Unexpected error">>, puts |-> put]

\* handler.py 67-97.  `db` is what put_item does if called, t the clock reading.
\* Returns the pair (ok, error) and the put_item calls made.
save_to_dynamodb(tenant_id, log_id, original_text, modified_data, source, db, t) ==
    IF ~table
    THEN [ok |-> FALSE, error |-> <<"DynamoDB table not configured">>, puts |-> <<>>]
    ELSE LET item == [tenant_id |-> tenant_id,
                      log_id |-> log_id,
                      source |-> source,
                      original_text |-> original_text,
                      modified_data |-> modified_data,
                      processed_at |-> t]
             put == <<[item |-> item, db |-> db]>>
         IN CASE db.kind = "ok" ->
                   [ok |-> TRUE, error |-> <<>>, puts |-> put]
              [] db.kind = "ClientError" ->
                   [ok |-> FALSE, error |-> <<"DynamoDB error">>, puts |-> put]
              [] db.kind = "BotoCoreError" ->
                   [ok |-> FALSE, error |-> <<"AWS SDK error">>, puts |-> put]
              [] OTHER ->
                   [ok |-> FALSE, error |-> <<"Unexpected error">>, puts |-> put]

ProcessFailure(reason) == [success |-> FALSE, error |-> reason, puts |-> <<>>]

\* A process_message that tests log_id only after the write
process_message_late_check(message_body, db, t) ==
    LET parsed == IF message_body.py = "str" THEN json_loads(message_body)
                  ELSE [ok |-> TRUE, value |-> message_body.value]
        payload == parsed.value
    IN IF ~parsed.ok THEN ProcessFailure(<<"Invalid JSON">>)
       ELSE IF payload.t # "dict"
       THEN ProcessFailure(<<"Processing error">>)
       ELSE LET tenant_id == Get(payload, "tenant_id", None)
                log_id == Get(payload, "log_id", None)
                text == Get(payload, "text", Str(<<>>))
                source == Get(payload, "source", Str(Unknown))
            IN IF Falsy(tenant_id) THEN ProcessFailure(<<"Missing tenant_id">>)
               ELSE IF text.t \notin {"str", "list", "dict"}
               THEN ProcessFailure(<<"Processing error">>)
               ELSE IF ~Falsy(text) /\ text.t # "str"
               THEN ProcessFailure(<<"Processing error">>)
               ELSE LET modified_data ==
                            IF text.t = "str" THEN Str(redact_sensitive_data(text.s))
                            ELSE text
                        saved == save_to_dynamodb(tenant_id, log_id, text,
                                                  modified_data, source, db, t)
                    IN IF Falsy(log_id)
                       THEN [success |-> FALSE, error |-> <<"Missing log_id">>,
                             puts |-> saved.puts]
                       ELSE IF ~saved.ok
                       THEN [success |-> FALSE, error |-> saved.error,
                             puts |-> saved.puts]
                       ELSE [success |-> TRUE, error |-> <<>>, puts |-> saved.puts]

\* handler.py 99-146
process_message(message_body, db, t) ==
    LET parsed == IF message_body.py = "str" THEN json_loads(message_body)
                  ELSE [ok |-> TRUE, value |-> message_body.value]
        payload == parsed.value
    IN IF ~parsed.ok THEN ProcessFailure(<<"Invalid JSON">>)
       ELSE IF payload.t # "dict"
       THEN ProcessFailure(<<"Processing error">>)    \* payload.get: AttributeError
       ELSE LET tenant_id == Get(payload, "tenant_id", None)
                log_id == Get(payload, "log_id", None)
                text == Get(payload, "text", Str(<<>>))
                source == Get(payload, "source", Str(Unknown))
            IN IF Falsy(tenant_id) THEN ProcessFailure(<<"Missing tenant_id">>)
               ELSE IF Falsy(log_id) THEN ProcessFailure(<<"Missing log_id">>)
               ELSE IF text.t \notin {"str", "list", "dict"}
               THEN ProcessFailure(<<"Processing error">>)   \* len(text): TypeError
               ELSE IF ~Falsy(text) /\ text.t # "str"
               THEN ProcessFailure(<<"Processing error">>)   \* re.sub: TypeError
               ELSE LET modified_data ==
                            IF text.t = "str" THEN Str(redact_sensitive_data(text.s))
                            ELSE text
                        saved == save_to_dynamodb(tenant_id, log_id, text,
                                                  modified_data, source, db, t)
                    IN IF ~saved.ok
                       THEN [success |-> FALSE, error |-> saved.error,
                             puts |-> saved.puts]
                       ELSE [success |-> TRUE, error |-> <<>>, puts |-> saved.puts]

\* A table whose put_item keeps an existing item (a conditional put)
RECURSIVE ApplyPutsIfAbsent(_, _)
ApplyPutsIfAbsent(st, puts) ==
    IF puts = <<>> THEN st
    ELSE LET p == Head(puts)
             key == <<p.item.tenant_id, p.item.log_id>>
             st1 == IF p.db.applied /\ key \notin DOMAIN st
                    THEN [k \in DOMAIN st \cup {key} |->
                             IF k = key THEN p.item ELSE st[k]]
                    ELSE st
         IN ApplyPutsIfAbsent(st1, Tail(puts))

\* handler.py 81: the table after the put_item calls of one message; put_item
\* replaces the whole item stored under the key <<tenant_id, log_id>>
RECURSIVE ApplyPuts(_, _)
ApplyPuts(st, puts) ==
    IF puts = <<>> THEN st
    ELSE LET p == Head(puts)
             key == <<p.item.tenant_id, p.item.log_id>>
             st1 == IF p.db.applied
                    THEN [k \in DOMAIN st \cup {key} |->
                             IF k = key THEN p.item ELSE st[k]]
                    ELSE st
         IN ApplyPuts(st1, Tail(puts))

\* handler.py 148-152: handler(event, context) is invoked with a batch
HandlerStart ==
    /\ w_pc \in {"idle", "returned"}
    /\ delivered < MaxDeliveries
    /\ \E batch \in Batches :
          /\ Len(batch) <= MaxDeliveries - delivered
          /\ event' = batch
          /\ delivered' = delivered + (IF batch = <<>> THEN 1 ELSE Len(batch))
    /\ idx' = 0
    /\ batch_item_failures' = <<>>
    /\ trace' = <<>>
    /\ w_result' = None
    /\ w_pc' = "loop"
    /\ UNCHANGED <<table, store, now, firstWrite>>
    /\ UNCHANGED <<sqs_vars, tenant_vars, redact_vars, ingest_vars>>

\* handler.py 162-164: `if not success: batch_item_failures.append(...)`
record_failure_overwrite(failures, success, message_id) ==
    IF ~success THEN <<[itemIdentifier |-> message_id]>> ELSE failures

\* A loop that reports no failure to the queue
record_failure_dropped(failures, success, message_id) == failures

record_failure(failures, success, message_id) ==
    IF ~success THEN Append(failures, [itemIdentifier |-> message_id]) ELSE failures

\* The effects of one loop iteration whose process_message call returned `out`
loop_effects(record, out) ==
    /\ batch_item_failures' =
           record_failure(batch_item_failures, out.success, record.messageId)
    /\ store' = ApplyPuts(store, out.puts)
    /\ trace' = Append(trace, [messageId |-> record.messageId,
                               success |-> out.success,
                               error |-> out.error,
                               puts |-> out.puts])
    /\ firstWrite' =
           IF out.success
           THEN [m \in DOMAIN firstWrite \cup {record.messageId} |->
                    IF m # record.messageId THEN firstWrite[m]
                    ELSE IF m \in DOMAIN firstWrite
                         THEN [firstWrite[m] EXCEPT !.count = @ + 1]
                         ELSE [item |-> out.puts[1].item, count |-> 1]]
           ELSE firstWrite

\* A loop body that gives up on the rest of the batch after a failure
handler_loop_body_sticky(record, db, t) ==
    \E out \in {IF batch_item_failures # <<>>
                THEN ProcessFailure(<<"Batch aborted">>)
                ELSE process_message(record.body, db, t)} :
        loop_effects(record, out)

\* handler.py 154-164: one iteration of `for record in records`
handler_loop_body(record, db, t) ==
    \E out \in {process_message(record.body, db, t)} :
        loop_effects(record, out)

HandlerStep ==
    /\ w_pc = "loop"
    /\ idx < Len(event)
    /\ \E db \in DbOutcomes, t \in get_current_timestamp :
          /\ handler_loop_body(event[idx + 1], db, t)
          /\ now' = t
    /\ idx' = idx + 1
    /\ UNCHANGED <<table, w_pc, event, w_result, delivered>>
    /\ UNCHANGED <<sqs_vars, tenant_vars, redact_vars, ingest_vars>>

\* handler.py 166-173
HandlerReturn ==
    /\ w_pc = "loop"
    /\ idx = Len(event)
    /\ w_result' = [batchItemFailures |-> batch_item_failures]
    /\ w_pc' = "returned"
    /\ UNCHANGED <<table, store, now, event, idx, batch_item_failures, trace,
                   firstWrite, delivered>>
    /\ UNCHANGED <<sqs_vars, tenant_vars, redact_vars, ingest_vars>>

WorkerNext == HandlerStart \/ HandlerStep \/ HandlerReturn

\* The worker process alone: the API's variables stay as constructed
InitWorker ==
    /\ table \in BOOLEAN
    /\ store = <<>>
    /\ now = 0
    /\ w_pc = "idle"
    /\ event = <<>>
    /\ idx = 0
    /\ batch_item_failures = <<>>
    /\ w_result = None
    /\ trace = <<>>
    /\ firstWrite = <<>>
    /\ delivered = 0
    /\ SQS_QUEUE_URL = FALSE
    /\ s_pc = "idle"
    /\ s_payload = None
    /\ max_retries = 0
    /\ attempt = 0
    /\ sleeps = <<>>
    /\ sends = <<>>
    /\ s_result = <<>>
    /\ calls = 0
    /\ v_pc = "idle"
    /\ v_tenant = None
    /\ v_result = <<>>
    /\ r_pc = "idle"
    /\ r_text = <<>>
    /\ r_once = <<>>
    /\ r_twice = <<>>
    /\ i_pc = "off"
    /\ i_request = None
    /\ i_normalized = None
    /\ i_response = None
    /\ i_enqueues = 0
    /\ requests = 0
    /\ accepted = {}
    /\ queue = {}

SpecWorker == InitWorker /\ [][WorkerNext]_vars

---------------------------------------------------------------------------
\* Queue producer (app.py send_to_sqs)

DefaultMaxRetries == 3  \* app.py 83: max_retries=3
MaxRetriesBound == 4    \* largest max_retries a call is made with
MaxCalls == 2         \* send_to_sqs calls per run

\* str.strip(): drop leading and trailing whitespace
RECURSIVE LStrip(_)
LStrip(s) == IF s # <<>> /\ Head(s) \in Whitespace THEN LStrip(Tail(s)) ELSE s
RECURSIVE RStrip(_)
RStrip(s) ==
    IF s # <<>> /\ s[Len(s)] \in Whitespace THEN RStrip(SubSeq(s, 1, Len(s) - 1)) ELSE s
Strip(s) == RStrip(LStrip(s))

\* app.py 72-80; tenant_id, log_id, text, source are Python strs, ts the
\* clock reading of get_current_timestamp()
normalize_payload(tenant_id, log_id, text, source, ts) ==
    Dict([tenant_id |-> Str(Strip(tenant_id)),
          log_id |-> Str(log_id),
          text |-> Str(text),
          source |-> Str(source),
          received_at |-> Num(ts),
          text_length |-> Num(Len(text))])

\* json.dumps(payload): the str that json.loads turns back into payload
json_dumps(payload) == RawJson(payload)

\* The records handed to send_to_sqs
Payloads ==
    { normalize_payload(T1, L1, TextPhone, JsonUpload, 0),
      normalize_payload(T2, L2, <<>>, <<"t", "e", "x", "t", "_", "u", "p", "l", "o", "a", "d">>, 1) }

\* app.py 24-35: the client exists exactly when SQS_QUEUE_URL is set
sqs_client == SQS_QUEUE_URL

LocalTag == <<"l", "o", "c", "a", "l", "-">>
Uuids == {<<"u", "1">>, <<"u", "2">>}                \* values of generate_log_id()
QueueIds == {<<"q", "1">>, <<"q", "2">>}             \* MessageId values of the queue
ErrorMessages == {"e1", "e2"}

\* What sqs_client.send_message does when called
SendOutcomes ==
    {[kind |-> "ok", code |-> "", msg |-> "", message_id |-> Str(q)] : q \in QueueIds}
    \cup {[kind |-> "ClientError", code |-> c, msg |-> m, message_id |-> None] :
             c \in {"InvalidParameterValue", "ValidationError", "AccessDenied",
                    "ServiceUnavailable", "Unknown"},
             m \in ErrorMessages}
    \cup {[kind |-> k, code |-> "", msg |-> m, message_id |-> None] :
             k \in {"BotoCoreError", "Exception"}, m \in ErrorMessages}

SqsError(kind, n, msg) == [kind |-> kind, attempts |-> n, msg |-> msg]

\* app.py 89: the message id of local mode
local_message_id_untagged(u) == Str(u)

local_message_id(u) == Str(LocalTag \o u)

\* app.py 123: the error codes that are not retried
NonRetryableCodes_short == {"InvalidParameterValue", "ValidationError"}

NonRetryableCodes == {"InvalidParameterValue", "ValidationError", "AccessDenied"}

\* app.py 127, 137: is there an attempt left to retry with
should_retry_always(att, retries) == TRUE

should_retry(att, retries) == att < retries - 1

\* app.py 128, 138: seconds slept before the next attempt, in milliseconds
backoff_sleep_time_late(att) == 100 * Pow2(att + 1)

backoff_sleep_time_linear(att) == 100 * (att + 1)

backoff_sleep_time(att) == 100 * Pow2(att)

\* app.py 83-94: the call send_to_sqs(payload, max_retries) up to its loop
send_to_sqs_entry(payload, retries) ==
    /\ calls' = calls + 1
    /\ s_payload' = payload
    /\ max_retries' = retries
    /\ attempt' = 0
    /\ sleeps' = <<>>
    /\ sends' = <<>>
    /\ IF ~SQS_QUEUE_URL
       THEN /\ \E u \in Uuids : s_result' = <<TRUE, local_message_id(u), None>>
            /\ s_pc' = "returned"
       ELSE IF ~sqs_client
       THEN /\ s_result' = <<FALSE, None, SqsError("SQS client not initialized", 0, "")>>
            /\ s_pc' = "returned"
       ELSE /\ s_result' = <<>>
            /\ s_pc' = "loop"
    /\ UNCHANGED SQS_QUEUE_URL

\* send_to_sqs(payload, max_retries) is called
SendToSqsCall ==
    /\ s_pc \in {"idle", "returned"}
    /\ calls < MaxCalls
    /\ \E payload \in Payloads, retries \in 1..MaxRetriesBound :
          send_to_sqs_entry(payload, retries)
    /\ UNCHANGED <<worker_vars, tenant_vars, redact_vars, ingest_vars>>

\* The retry branch of an except clause (app.py 127-132, 137-141) followed,
\* when the loop has no attempt left, by the return after it (app.py 147)
retry_or_fail(failure) ==
    IF should_retry(attempt, max_retries)
    THEN /\ sleeps' = Append(sleeps, backoff_sleep_time(attempt))
         /\ attempt' = attempt + 1
         /\ IF attempt + 1 < max_retries
            THEN s_pc' = "loop" /\ s_result' = s_result
            ELSE /\ s_pc' = "returned"
                 /\ s_result' = <<FALSE, None, SqsError("Max retries exceeded", 0, "")>>
    ELSE /\ s_result' = <<FALSE, None, failure>>
         /\ s_pc' = "returned"
         /\ UNCHANGED <<sleeps, attempt>>

\* A loop without the last except clause: the exception leaves send_to_sqs
on_unexpected_error_raise(o) ==
    /\ s_result' = <<>>
    /\ s_pc' = "raised"
    /\ UNCHANGED <<sleeps, attempt>>

\* app.py 143-145: `except Exception as e`
on_unexpected_error(o) ==
    /\ s_result' = <<FALSE, None, SqsError("Unexpected error", 0, o.msg)>>
    /\ s_pc' = "returned"
    /\ UNCHANGED <<sleeps, attempt>>

\* app.py 94-145: one iteration of `for attempt in range(max_retries)`
SendAttempt ==
    /\ s_pc = "loop"
    /\ attempt < max_retries
    /\ \E o \in SendOutcomes :
          /\ sends' = Append(sends, [body |-> json_dumps(s_payload),
                                     tenant_id |-> s_payload.d["tenant_id"],
                                     source |-> s_payload.d["source"],
                                     outcome |-> o])
          /\ CASE o.kind = "ok" ->
                    /\ s_result' = <<TRUE, o.message_id, None>>
                    /\ s_pc' = "returned"
                    /\ UNCHANGED <<sleeps, attempt>>
               [] o.kind = "ClientError" ->
                    IF o.code \in NonRetryableCodes
                    THEN /\ s_result' =
                              <<FALSE, None, SqsError("SQS validation error", 0, o.msg)>>
                         /\ s_pc' = "returned"
                         /\ UNCHANGED <<sleeps, attempt>>
                    ELSE retry_or_fail(SqsError("SQS error after attempts",
                                                max_retries, o.msg))
               [] o.kind = "BotoCoreError" ->
                    retry_or_fail(SqsError("AWS SDK error", 0, o.msg))
               [] OTHER -> on_unexpected_error(o)
    /\ UNCHANGED <<SQS_QUEUE_URL, s_payload, max_retries, calls>>
    /\ UNCHANGED <<worker_vars, tenant_vars, redact_vars, ingest_vars>>

SqsNext == SendToSqsCall \/ SendAttempt

\* The queue producer alone, with or without a configured queue
InitSqs ==
    /\ SQS_QUEUE_URL \in BOOLEAN
    /\ s_pc = "idle"
    /\ s_payload = None
    /\ max_retries = 0
    /\ attempt = 0
    /\ sleeps = <<>>
    /\ sends = <<>>
    /\ s_result = <<>>
    /\ calls = 0
    /\ table = FALSE
    /\ store = <<>>
    /\ now = 0
    /\ w_pc = "idle"
    /\ event = <<>>
    /\ idx = 0
    /\ batch_item_failures = <<>>
    /\ w_result = None
    /\ trace = <<>>
    /\ firstWrite = <<>>
    /\ delivered = 0
    /\ v_pc = "idle"
    /\ v_tenant = None
    /\ v_result = <<>>
    /\ r_pc = "idle"
    /\ r_text = <<>>
    /\ r_once = <<>>
    /\ r_twice = <<>>
    /\ i_pc = "off"
    /\ i_request = None
    /\ i_normalized = None
    /\ i_response = None
    /\ i_enqueues = 0
    /\ requests = 0
    /\ accepted = {}
    /\ queue = {}

SpecSqs == InitSqs /\ [][SqsNext]_vars

\* The same with the loop of a started call running to its return
SpecSqsFair == SpecSqs /\ WF_vars(SendAttempt)

---------------------------------------------------------------------------
\* Tenant validator (app.py validate_tenant_id)

MaxTenantLen == 64     \* app.py 63
MaxTenantShort == 3    \* length of the enumerated short ids

TenantChars == Lower \cup Upper \cup Digit \cup {"-", "_"}    \* [a-zA-Z0-9-_]
tenant_pattern == <<C(TenantChars, 1, -1), End>>               \* ^[a-zA-Z0-9-_]+$

\* A validator whose length test is `>=`
validate_tenant_id_ge(tenant_id) ==
    IF Falsy(tenant_id) THEN <<FALSE, <<"tenant_id is required">> >>
    ELSE IF tenant_id.t # "str" THEN <<FALSE, <<"tenant_id must be a string">> >>
    ELSE LET stripped == Strip(tenant_id.s)
         IN IF Len(stripped) = 0 THEN <<FALSE, <<"tenant_id cannot be empty">> >>
            ELSE IF Len(stripped) >= MaxTenantLen
            THEN <<FALSE, <<"tenant_id must be less than 64 characters">> >>
            ELSE IF ~re_match(tenant_pattern, stripped)
            THEN <<FALSE, <<"tenant_id must only contain alphanumeric characters, hyphens, or underscores">> >>
            ELSE <<TRUE, <<>> >>

\* app.py 45-69: returns the pair (valid, error), error <<>> standing for None
validate_tenant_id(tenant_id) ==
    IF Falsy(tenant_id) THEN <<FALSE, <<"tenant_id is required">> >>
    ELSE IF tenant_id.t # "str" THEN <<FALSE, <<"tenant_id must be a string">> >>
    ELSE LET stripped == Strip(tenant_id.s)
         IN IF Len(stripped) = 0 THEN <<FALSE, <<"tenant_id cannot be empty">> >>
            ELSE IF Len(stripped) > MaxTenantLen
            THEN <<FALSE, <<"tenant_id must be less than 64 characters">> >>
            ELSE IF ~re_match(tenant_pattern, stripped)
            THEN <<FALSE, <<"tenant_id must only contain alphanumeric characters, hyphens, or underscores">> >>
            ELSE <<TRUE, <<>> >>

Repeat(ch, n) == [i \in 1..n |-> ch]

\* The ids validate_tenant_id is called with: every string of at most
\* MaxTenantShort characters over a small alphabet, strings around the length
\* limit (bare, padded with a blank, with a character outside the class), and
\* values that are not strings
TenantAlphabet == {"a", "Z", "7", "-", "_", " ", "\n", "!"}
ShortIds == UNION {[1..k -> TenantAlphabet] : k \in 0..MaxTenantShort}
LongIds ==
    {pre \o Repeat("a", n) \o mid \o post :
        n \in (MaxTenantLen - 1)..(MaxTenantLen + 1),
        pre \in {<<>>, <<" ">>}, mid \in {<<>>, <<"!">>}, post \in {<<>>, <<" ">>}}
TenantInputs ==
    {None, Num(0), Num(5)} \cup {Str(id) : id \in ShortIds \cup LongIds}

\* The call validate_tenant_id(v_tenant)
ValidateTenant ==
    /\ v_pc = "input"
    /\ v_result' = validate_tenant_id(v_tenant)
    /\ v_pc' = "done"
    /\ UNCHANGED v_tenant
    /\ UNCHANGED <<worker_vars, sqs_vars, redact_vars, ingest_vars>>

\* The validator alone, on each of the inputs
InitTenant ==
    /\ v_pc = "input"
    /\ v_tenant \in TenantInputs
    /\ v_result = <<>>
    /\ table = FALSE
    /\ store = <<>>
    /\ now = 0
    /\ w_pc = "idle"
    /\ event = <<>>
    /\ idx = 0
    /\ batch_item_failures = <<>>
    /\ w_result = None
    /\ trace = <<>>
    /\ firstWrite = <<>>
    /\ delivered = 0
    /\ SQS_QUEUE_URL = FALSE
    /\ s_pc = "idle"
    /\ s_payload = None
    /\ max_retries = 0
    /\ attempt = 0
    /\ sleeps = <<>>
    /\ sends = <<>>
    /\ s_result = <<>>
    /\ calls = 0
    /\ r_pc = "idle"
    /\ r_text = <<>>
    /\ r_once = <<>>
    /\ r_twice = <<>>
    /\ i_pc = "off"
    /\ i_request = None
    /\ i_normalized = None
    /\ i_response = None
    /\ i_enqueues = 0
    /\ requests = 0
    /\ accepted = {}
    /\ queue = {}

TenantNext == ValidateTenant

SpecTenant == InitTenant /\ [][TenantNext]_vars

---------------------------------------------------------------------------
\* Ingest endpoint (app.py handle_json_payload, handle_text_payload, ingest)

TextUpload == <<"t", "e", "x", "t", "_", "u", "p", "l", "o", "a", "d">>

\* What a payload handler does: returns (normalized, error_response,
\* status_code), or raises
Handled(normalized, error_response, status_code) ==
    [raised |-> FALSE, normalized |-> normalized, error |-> error_response,
     status |-> status_code]
Raised == [raised |-> TRUE, normalized |-> None, error |-> None, status |-> 0]

\* A handler without the `if not log_id: log_id = generate_log_id()` step
handle_json_payload_keep_blank(data, u) ==
    IF data.t # "dict" THEN Raised
    ELSE LET tenant_id == Get(data, "tenant_id", None)
             valid == validate_tenant_id(tenant_id)
             text == Get(data, "text", None)
             log_id == Get(data, "log_id", None)
         IN IF ~valid[1]
            THEN Handled(None, [error |-> "Invalid tenant_id", details |-> valid[2]], 400)
            ELSE IF text = None
            THEN Handled(None, [error |-> "Missing text",
                                details |-> <<"text field is required">>], 400)
            ELSE IF text.t # "str"
            THEN Handled(None, [error |-> "Invalid text",
                                details |-> <<"text must be a string">>], 400)
            ELSE IF ~Falsy(log_id) /\ log_id.t # "str"
            THEN Handled(None, [error |-> "Invalid log_id",
                                details |-> <<"log_id must be a string">>], 400)
            ELSE LET final == IF ~Falsy(log_id) THEN Str(Strip(log_id.s))
                              ELSE Str(<<>>)
                 IN Handled(normalize_payload(tenant_id.s, final.s, text.s,
                                              JsonUpload, now),
                            None, 0)

\* app.py 150-181.  data is the parsed JSON body, u the value generate_log_id()
\* returns if called.  data.get raises AttributeError when data is no dict.
handle_json_payload(data, u) ==
    IF data.t # "dict" THEN Raised
    ELSE LET tenant_id == Get(data, "tenant_id", None)
             valid == validate_tenant_id(tenant_id)
             text == Get(data, "text", None)
             log_id == Get(data, "log_id", None)
         IN IF ~valid[1]
            THEN Handled(None, [error |-> "Invalid tenant_id", details |-> valid[2]], 400)
            ELSE IF text = None
            THEN Handled(None, [error |-> "Missing text",
                                details |-> <<"text field is required">>], 400)
            ELSE IF text.t # "str"
            THEN Handled(None, [error |-> "Invalid text",
                                details |-> <<"text must be a string">>], 400)
            ELSE IF ~Falsy(log_id) /\ log_id.t # "str"
            THEN Handled(None, [error |-> "Invalid log_id",
                                details |-> <<"log_id must be a string">>], 400)
            ELSE LET stripped == IF ~Falsy(log_id) THEN Str(Strip(log_id.s))
                                 ELSE log_id
                     final == IF Falsy(stripped) THEN Str(u) ELSE stripped
                 IN Handled(normalize_payload(tenant_id.s, final.s, text.s,
                                              JsonUpload, now),
                            None, 0)

\* app.py 184-208.  headers is the (case-insensitive) header mapping, so both
\* spellings of a name read the same header.
handle_text_payload(raw_text, headers, u) ==
    LET tenant_id == Get(headers, "X-Tenant-ID", None)
        valid == validate_tenant_id(tenant_id)
        log_id == Get(headers, "X-Log-ID", None)
    IN IF ~valid[1]
       THEN Handled(None, [error |-> "Missing or invalid X-Tenant-ID header",
                           details |-> valid[2]], 400)
       ELSE LET final == IF Falsy(log_id) THEN Str(u) ELSE log_id
            IN Handled(normalize_payload(tenant_id.s, final.s, raw_text,
                                         TextUpload, now),
                       None, 0)

\* A request: the Content-Type header (request.content_type or ""), the body
\* as request.get_json reads it, the other headers, and the body as text
JsonTypes == {"application/json", "application/json; charset=utf-8"}
TextTypes == {"text/plain"}
OtherTypes == {"application/xml", ""}

\* A field or header that the request does not carry
Absent == [t |-> "absent"]
Present(fields) == {k \in DOMAIN fields : fields[k] # Absent}
JsonObject(tenant_id, text, log_id) ==
    LET fields == [tenant_id |-> tenant_id, text |-> text, log_id |-> log_id]
    IN Dict([k \in Present(fields) |-> fields[k]])
Headers(tenant_id, log_id) ==
    LET fields == [k \in {"X-Tenant-ID", "X-Log-ID"} |->
                      IF k = "X-Tenant-ID" THEN tenant_id ELSE log_id]
    IN Dict([k \in Present(fields) |-> fields[k]])

BadTenant == <<"b", "a", "d", " ", "t", "!">>
PaddedT1 == <<" ">> \o T1 \o <<" ">>
PaddedL1 == <<" ">> \o L1 \o <<"\n">>
Blank == <<" ", "\t">>

JsonTenants == {Absent, None, Num(5), Str(<<>>), Str(BadTenant), Str(T1), Str(PaddedT1)}
JsonTexts == {Absent, None, Num(5), List(1), Str(<<>>), Str(TextPhone)}
JsonLogIds ==
    {Absent, None, Str(<<>>), Str(Blank), Str(L1), Str(PaddedL1),
     Num(0), Num(5), List(0), List(1), Dict(<<>>), Dict([a |-> Num(1)])}

JsonRequests ==
    {[content_type |-> "application/json",
      body |-> RawJson(JsonObject(tn, tx, lg)),
      headers |-> Dict(<<>>), raw_text |-> <<>>] :
        tn \in JsonTenants, tx \in JsonTexts, lg \in JsonLogIds}
    \cup {[content_type |-> ct, body |-> b, headers |-> Dict(<<>>), raw_text |-> <<>>] :
             ct \in JsonTypes,
             b \in {Malformed, RawJson(None), RawJson(List(0)), RawJson(List(1)),
                    RawJson(Num(5)), RawJson(Str(TextHi)),
                    RawJson(JsonObject(Str(T1), Str(TextHi), Str(L2)))}}
TextRequests ==
    {[content_type |-> ct, body |-> Malformed,
      headers |-> Headers(tn, lg), raw_text |-> raw] :
        ct \in TextTypes,
        tn \in {Absent, Str(<<>>), Str(BadTenant), Str(T2), Str(PaddedT1)},
        lg \in {Absent, Str(<<>>), Str(Blank), Str(L2)},
        raw \in {<<>>, TextPhone}}
OtherRequests ==
    {[content_type |-> ct, body |-> b, headers |-> Headers(Str(T1), Absent),
      raw_text |-> TextHi] :
        ct \in OtherTypes,
        b \in {Malformed, RawJson(JsonObject(Str(T1), Str(TextHi), Absent))}}
Requests == JsonRequests \cup TextRequests \cup OtherRequests

Response(status, body) == [status |-> status, body |-> body]

\* app.py 228-263 and 287-295: the part of ingest() before the enqueue.  Either
\* a response is returned, or the record to enqueue is at hand.
ingest_validate(req, u) ==
    LET handled ==
            IF req.content_type \in JsonTypes
            THEN handle_json_payload(req.body.value, u)
            ELSE handle_text_payload(req.raw_text, req.headers, u)
    IN IF req.content_type \in JsonTypes /\ ~req.body.wellformed
       THEN [respond |-> TRUE, normalized |-> None,
             response |-> Response(400, [error |-> "JSON parse error"])]
       ELSE IF req.content_type \in JsonTypes /\ req.body.value = None
       THEN [respond |-> TRUE, normalized |-> None,
             response |-> Response(400, [error |-> "Invalid JSON"])]
       ELSE IF req.content_type \notin JsonTypes \cup TextTypes
       THEN [respond |-> TRUE, normalized |-> None,
             response |-> Response(415, [error |-> "Unsupported Content-Type"])]
       ELSE IF handled.raised
       THEN [respond |-> TRUE, normalized |-> None,
             response |-> Response(500, [error |-> "Internal server error",
                                         retry_after |-> 5])]
       ELSE IF handled.error # None
       THEN [respond |-> TRUE, normalized |-> None,
             response |-> Response(handled.status, handled.error)]
       ELSE [respond |-> FALSE, normalized |-> handled.normalized,
             response |-> None]

\* The text a request submits
SubmittedText(req) ==
    IF req.content_type \in JsonTypes THEN req.body.value.d["text"].s
    ELSE req.raw_text

\* app.py 226-266: POST /ingest arrives; ingest() runs up to its response or,
\* after validation, into send_to_sqs(normalized)
IngestRequest ==
    /\ i_pc = "idle"
    /\ requests' = requests + 1
    /\ \E req \in Requests, u \in Uuids : \E v \in {ingest_validate(req, u)} :
          /\ i_request' = req
          /\ i_normalized' = v.normalized
          /\ IF v.respond
             THEN /\ i_response' = v.response
                  /\ i_enqueues' = 0
                  /\ i_pc' = "responded"
                  /\ UNCHANGED sqs_vars
             ELSE /\ i_response' = None
                  /\ i_enqueues' = 1
                  /\ i_pc' = "sending"
                  /\ send_to_sqs_entry(v.normalized, DefaultMaxRetries)
    /\ UNCHANGED <<accepted, queue>>
    /\ UNCHANGED <<worker_vars, tenant_vars, redact_vars>>

\* app.py 266-285: send_to_sqs has returned; ingest() answers 500 or 202.  A
\* message the queue took is from then on held for the worker.
IngestRespond ==
    /\ i_pc = "sending"
    /\ s_pc = "returned"
    /\ IF ~s_result[1]
       THEN /\ i_response' = Response(500, [error |-> "Queue unavailable",
                                            retry_after |-> 5,
                                            details |-> s_result[3]])
            /\ UNCHANGED <<accepted, queue>>
       ELSE /\ i_response' =
                  Response(202, [status |-> "accepted",
                                 log_id |-> i_normalized.d["log_id"],
                                 tenant_id |-> i_normalized.d["tenant_id"],
                                 message_id |-> s_result[2]])
            /\ accepted' = accepted \cup
                  {[tenant_id |-> i_normalized.d["tenant_id"],
                    log_id |-> i_normalized.d["log_id"],
                    text |-> Str(SubmittedText(i_request)),
                    message_id |-> s_result[2]]}
            /\ queue' = IF SQS_QUEUE_URL
                        THEN queue \cup {[messageId |-> s_result[2],
                                          body |-> json_dumps(i_normalized)]}
                        ELSE queue
    /\ i_pc' = "responded"
    /\ UNCHANGED <<i_request, i_normalized, i_enqueues, requests>>
    /\ UNCHANGED <<worker_vars, sqs_vars, tenant_vars, redact_vars>>

IngestNext == IngestRequest \/ SendAttempt \/ IngestRespond

\* One request to the API, with or without a configured queue
InitIngest ==
    /\ SQS_QUEUE_URL \in BOOLEAN
    /\ i_pc = "idle"
    /\ i_request = None
    /\ i_normalized = None
    /\ i_response = None
    /\ i_enqueues = 0
    /\ requests = 0
    /\ accepted = {}
    /\ queue = {}
    /\ s_pc = "idle"
    /\ s_payload = None
    /\ max_retries = 0
    /\ attempt = 0
    /\ sleeps = <<>>
    /\ sends = <<>>
    /\ s_result = <<>>
    /\ calls = 0
    /\ table \in BOOLEAN
    /\ store = <<>>
    /\ now = 0
    /\ w_pc = "idle"
    /\ event = <<>>
    /\ idx = 0
    /\ batch_item_failures = <<>>
    /\ w_result = None
    /\ trace = <<>>
    /\ firstWrite = <<>>
    /\ delivered = 0
    /\ v_pc = "idle"
    /\ v_tenant = None
    /\ v_result = <<>>
    /\ r_pc = "idle"
    /\ r_text = <<>>
    /\ r_once = <<>>
    /\ r_twice = <<>>

SpecIngest == InitIngest /\ [][IngestNext]_vars

---------------------------------------------------------------------------
\* The pipeline: ingest() enqueues, the queue hands batches of its messages to
\* handler() and keeps those the returned batchItemFailures names

MaxRequests == 2      \* requests the API receives

\* Requests sent in the pipeline runs: two JSON ones for the same key with
\* different texts, and a plain-text one
PipelineRequests ==
    { [content_type |-> "application/json",
       body |-> RawJson(JsonObject(Str(PaddedT1), Str(TextPhone), Str(L1))),
       headers |-> Dict(<<>>), raw_text |-> <<>>],
      [content_type |-> "application/json",
       body |-> RawJson(JsonObject(Str(T1), Str(<<>>), Str(PaddedL1))),
       headers |-> Dict(<<>>), raw_text |-> <<>>],
      [content_type |-> "text/plain", body |-> Malformed,
       headers |-> Headers(Str(T2), Str(L2)), raw_text |-> TextPhone] }

\* What send_message does in the pipeline runs: it succeeds, the queue giving
\* every message it takes an id of its own, or fails transiently
PipelineSendOutcomes ==
    {o \in SendOutcomes :
        /\ o.msg \in {"", "e1"}
        /\ o.code \in {"", "ServiceUnavailable"}
        /\ o.kind \in {"ok", "ClientError"}
        /\ o.message_id \notin {r.message_id : r \in accepted}}

\* What put_item does in the pipeline runs
PipelineDbOutcomes == {db \in DbOutcomes : db.kind \in {"ok", "ClientError"}}

\* ingest() has returned its response: the request and the locals of its
\* send_to_sqs call are gone, the API waits for the next request
NextRequest ==
    /\ i_pc = "responded"
    /\ i_pc' = "idle"
    /\ i_request' = None
    /\ i_normalized' = None
    /\ i_response' = None
    /\ i_enqueues' = 0
    /\ s_pc' = "idle"
    /\ s_payload' = None
    /\ max_retries' = 0
    /\ attempt' = 0
    /\ sleeps' = <<>>
    /\ sends' = <<>>
    /\ s_result' = <<>>
    /\ UNCHANGED <<SQS_QUEUE_URL, calls, requests, accepted, queue>>
    /\ UNCHANGED <<worker_vars, tenant_vars, redact_vars>>

PipelineIngest ==
    /\ requests < MaxRequests
    /\ IngestRequest
    /\ i_request' \in PipelineRequests

PipelineSendAttempt ==
    SendAttempt /\ sends'[Len(sends')].outcome \in PipelineSendOutcomes

\* A loop step of handler() in the pipeline runs
PipelineStep ==
    /\ HandlerStep
    /\ \A k \in 1..Len(trace'[idx'].puts) :
          trace'[idx'].puts[k].db \in PipelineDbOutcomes
    /\ now' = now

\* The queue invokes handler() with a batch of the messages it holds
\* (handler.py 148-152)
PipelineDeliver ==
    /\ w_pc = "idle"
    /\ \E ids \in (SUBSET {m.messageId : m \in queue}) \ {{}} :
          \E batch \in {b \in [1..Cardinality(ids) -> queue] :
                           {b[i].messageId : i \in DOMAIN b} = ids} :
              event' = batch
    /\ idx' = 0
    /\ batch_item_failures' = <<>>
    /\ trace' = <<>>
    /\ w_result' = None
    /\ w_pc' = "loop"
    /\ UNCHANGED <<table, store, now, firstWrite, delivered>>
    /\ UNCHANGED <<sqs_vars, tenant_vars, redact_vars, ingest_vars>>

\* The queue reads the response of handler(): it deletes the messages of the
\* batch that batchItemFailures does not name and keeps the others for
\* redelivery; the invocation and its locals are gone
PipelineAck ==
    /\ w_pc = "returned"
    /\ queue' = {m \in queue :
                    \/ \A i \in 1..Len(event) : event[i].messageId # m.messageId
                    \/ \E k \in 1..Len(w_result.batchItemFailures) :
                          w_result.batchItemFailures[k].itemIdentifier = m.messageId}
    /\ w_pc' = "idle"
    /\ event' = <<>>
    /\ idx' = 0
    /\ batch_item_failures' = <<>>
    /\ w_result' = None
    /\ trace' = <<>>
    /\ UNCHANGED <<table, store, now, firstWrite, delivered>>
    /\ UNCHANGED <<i_pc, i_request, i_normalized, i_response, i_enqueues,
                   requests, accepted>>
    /\ UNCHANGED <<sqs_vars, tenant_vars, redact_vars>>

PipelineNext ==
    \/ PipelineIngest
    \/ PipelineSendAttempt
    \/ IngestRespond
    \/ NextRequest
    \/ PipelineDeliver
    \/ PipelineStep
    \/ HandlerReturn
    \/ PipelineAck

\* API and worker, with a queue and a table configured
InitPipeline ==
    /\ SQS_QUEUE_URL = TRUE
    /\ table = TRUE
    /\ i_pc = "idle"
    /\ i_request = None
    /\ i_normalized = None
    /\ i_response = None
    /\ i_enqueues = 0
    /\ requests = 0
    /\ accepted = {}
    /\ queue = {}
    /\ s_pc = "idle"
    /\ s_payload = None
    /\ max_retries = 0
    /\ attempt = 0
    /\ sleeps = <<>>
    /\ sends = <<>>
    /\ s_result = <<>>
    /\ calls = 0
    /\ store = <<>>
    /\ now = 0
    /\ w_pc = "idle"
    /\ event = <<>>
    /\ idx = 0
    /\ batch_item_failures = <<>>
    /\ w_result = None
    /\ trace = <<>>
    /\ firstWrite = <<>>
    /\ delivered = 0
    /\ v_pc = "idle"
    /\ v_tenant = None
    /\ v_result = <<>>
    /\ r_pc = "idle"
    /\ r_text = <<>>
    /\ r_once = <<>>
    /\ r_twice = <<>>

MessageIdsOfQueue == {Str(q) : q \in QueueIds}

\* handler() has a record of its batch still to process
LoopPending ==
    /\ w_pc = "loop"
    /\ idx < Len(event)

\* handler() goes on to the next record of its batch
LoopAdvances ==
    /\ LoopPending
    /\ idx' = idx + 1

\* The next record of the batch is message m
IsNext(m) ==
    /\ LoopPending
    /\ event[idx + 1].messageId = m

\* Message m is processed and put_item accepts its item
StoreAccepts(m) ==
    /\ IsNext(m)
    /\ idx' = idx + 1
    /\ trace'[idx'].success

\* The queue hands message m to handler()
QueueDelivers(m) ==
    /\ PipelineDeliver
    /\ \E i \in 1..Len(event') : event'[i].messageId = m

\* Every started call and invocation runs on; the queue delivers, again and
\* again, every message it holds; the table does not refuse the write of a
\* message every time the message is processed (strong fairness of the
\* accepted write, which is possible whenever the message is next)
PipelineFairness ==
    /\ WF_vars(PipelineSendAttempt)
    /\ WF_vars(IngestRespond)
    /\ WF_vars(NextRequest)
    /\ []<>(~LoopPending) \/ []<><<LoopAdvances>>_vars
    /\ WF_vars(HandlerReturn)
    /\ WF_vars(PipelineAck)
    /\ \A m \in MessageIdsOfQueue : SF_vars(QueueDelivers(m))
    /\ \A m \in MessageIdsOfQueue :
          <>[](~IsNext(m)) \/ []<><<StoreAccepts(m)>>_vars

SpecPipeline == InitPipeline /\ [][PipelineNext]_vars /\ PipelineFairness

---------------------------------------------------------------------------
\* Redactor (handler.py redact_sensitive_data) run on its own output

MaxParts == 2         \* pieces a text is put together from

\* The regex passes in the order redact_sensitive_data applies them
redaction_passes == phone_patterns \o <<ssn_pattern, email_pattern, cc_pattern>>

\* Pieces of text: one sample of every shape a pattern matches, the marker,
\* and single characters that extend a neighbouring piece or separate it
PhoneIntl == <<"+", "1", "-", "5", "5", "5", "-", "5", "5", "5", "-", "0", "1", "9", "9">>
PhoneParen == <<"(", "5", "5", "5", ")", " ", "5", "5", "5", "-", "0", "1", "9", "9">>
Phone10 == <<"5", "5", "5", ".", "5", "5", "5", ".", "0", "1", "9", "9">>
Phone7 == <<"5", "5", "5", "0", "1", "9", "9">>
Ssn == <<"1", "2", "3", "-", "4", "5", "-", "6", "7", "8", "9">>
Email == <<"a", ".", "b", "@", "c", ".", "i", "o">>
EmailBar == <<"a", "@", "b", ".", "c", "o", "|">>
Card == <<"1", "2", "3", "4", " ", "5", "6", "7", "8", " ", "9", "0", "1", "2", " ", "3", "4", "5", "6">>
TextPieces ==
    { PhoneIntl, PhoneParen, Phone10, Phone7, TextPhone, Ssn, Email, EmailBar,
      Card, REDACTED,
      <<"5">>, <<"a">>, <<" ">>, <<"-">>, <<"+">>, <<"@">>, <<".">> }

RECURSIVE Concat(_)
Concat(parts) == IF parts = <<>> THEN <<>> ELSE Head(parts) \o Concat(Tail(parts))

\* The texts redact_sensitive_data is called with
RedactInputs ==
    UNION {{Concat(parts) : parts \in [1..k -> TextPieces]} : k \in 0..MaxParts}

\* modified_data = redact_sensitive_data(text)   (handler.py 124)
RedactCall ==
    /\ r_pc = "input"
    /\ r_once' = redact_sensitive_data(r_text)
    /\ r_pc' = "once"
    /\ UNCHANGED <<r_text, r_twice>>
    /\ UNCHANGED <<worker_vars, sqs_vars, tenant_vars, ingest_vars>>

\* The redacted text is redacted again (a redelivered or re-ingested record)
RedactAgain ==
    /\ r_pc = "once"
    /\ r_twice' = redact_sensitive_data(r_once)
    /\ r_pc' = "twice"
    /\ UNCHANGED <<r_text, r_once>>
    /\ UNCHANGED <<worker_vars, sqs_vars, tenant_vars, ingest_vars>>

RedactNext == RedactCall \/ RedactAgain

\* The redactor alone, on each of the texts
InitRedact ==
    /\ r_pc = "input"
    /\ r_text \in RedactInputs
    /\ r_once = <<>>
    /\ r_twice = <<>>
    /\ table = FALSE
    /\ store = <<>>
    /\ now = 0
    /\ w_pc = "idle"
    /\ event = <<>>
    /\ idx = 0
    /\ batch_item_failures = <<>>
    /\ w_result = None
    /\ trace = <<>>
    /\ firstWrite = <<>>
    /\ delivered = 0
    /\ SQS_QUEUE_URL = FALSE
    /\ s_pc = "idle"
    /\ s_payload = None
    /\ max_retries = 0
    /\ attempt = 0
    /\ sleeps = <<>>
    /\ sends = <<>>
    /\ s_result = <<>>
    /\ calls = 0
    /\ v_pc = "idle"
    /\ v_tenant = None
    /\ v_result = <<>>
    /\ i_pc = "off"
    /\ i_request = None
    /\ i_normalized = None
    /\ i_response = None
    /\ i_enqueues = 0
    /\ requests = 0
    /\ accepted = {}
    /\ queue = {}

SpecRedact == InitRedact /\ [][RedactNext]_vars

---------------------------------------------------------------------------
\* Properties of the worker (checked under SpecWorker)

\* The identifiers of the records of `ev` whose trace entry reports failure,
\* in batch order
RECURSIVE FailedIdentifiers(_, _)
FailedIdentifiers(ev, tr) ==
    IF ev = <<>> \/ tr = <<>> THEN <<>>
    ELSE (IF Head(tr).success THEN <<>>
          ELSE <<[itemIdentifier |-> Head(ev).messageId]>>)
         \o FailedIdentifiers(Tail(ev), Tail(tr))

IsListed(message_id) ==
    \E k \in 1..Len(batch_item_failures) :
        batch_item_failures[k].itemIdentifier = message_id

\* C1: when handler() has returned, batchItemFailures holds, in batch order,
\* exactly one entry {itemIdentifier: messageId} per record whose
\* process_message call reported failure and none for a record that succeeded:
\* K failures among N records give exactly K identifiers.
C1_PartialBatchResponse ==
    w_pc = "returned" =>
        /\ Len(trace) = Len(event)
        /\ w_result = [batchItemFailures |-> FailedIdentifiers(event, trace)]
        /\ Len(w_result.batchItemFailures) =
               Cardinality({i \in 1..Len(event) : ~trace[i].success})
        /\ \A i \in 1..Len(event) :
               trace[i].success => ~IsListed(event[i].messageId)

\* A batch of three records with a success between two failures has returned
C1_Witness ==
    /\ w_pc = "returned"
    /\ Len(event) = 3
    /\ ~trace[1].success /\ trace[2].success /\ ~trace[3].success
    /\ Len(w_result.batchItemFailures) = 2

\* What the body of a message says, read off the message itself
BodyParses(body) == body.py # "str" \/ body.wellformed
HasRequiredFields(body) ==
    /\ BodyParses(body)
    /\ body.value.t = "dict"
    /\ "tenant_id" \in DOMAIN body.value.d /\ ~Falsy(body.value.d["tenant_id"])
    /\ "log_id" \in DOMAIN body.value.d /\ ~Falsy(body.value.d["log_id"])

\* C2: a record of the running invocation is absent from the failure list only
\* if put_item was called for it and returned without error, writing the item
\* derived from it; a body that does not parse, lacks tenant_id or log_id, a
\* put_item that raised, or any other exception puts it on the list.
C2_AckOnlyAfterWrite ==
    \A i \in 1..Len(trace) :
        LET e == trace[i]
            body == event[i].body
        IN /\ e.messageId = event[i].messageId
           /\ IsListed(e.messageId) = ~e.success
           /\ e.success =>
                 /\ HasRequiredFields(body)
                 /\ Len(e.puts) = 1
                 /\ e.puts[1].db.kind = "ok"
                 /\ e.puts[1].item.tenant_id = body.value.d["tenant_id"]
                 /\ e.puts[1].item.log_id = body.value.d["log_id"]
           /\ (~HasRequiredFields(body) => ~e.success)
           /\ (e.puts # <<>> /\ e.puts[1].db.kind # "ok" => ~e.success)
           /\ (i = Len(trace) /\ e.success =>
                  LET key == <<e.puts[1].item.tenant_id, e.puts[1].item.log_id>>
                  IN key \in DOMAIN store /\ store[key] = e.puts[1].item)

\* A batch in which one record was written and acknowledged while put_item
\* raised for another one
C2_Witness ==
    /\ w_pc = "returned"
    /\ \E i, j \in 1..Len(trace) :
          /\ trace[i].success /\ ~IsListed(trace[i].messageId)
          /\ trace[j].puts # <<>> /\ trace[j].puts[1].db.kind = "ClientError"
          /\ IsListed(trace[j].messageId)

\* What process_message does for record j on its own, given the backend
\* behaviour and clock reading its put_item call (if any) met in the batch
SoloOutcome(j) ==
    LET e == trace[j]
        db == IF e.puts # <<>> THEN e.puts[1].db ELSE [kind |-> "ok", applied |-> TRUE]
        t == IF e.puts # <<>> THEN e.puts[1].item.processed_at ELSE 0
    IN process_message(event[j].body, db, t)

\* C3: a record that fails at any step neither stops nor alters the others:
\* whatever failed before, the loop is at a record it can process or at the
\* end of the batch where it returns; every record of the batch is processed
\* exactly once and in order, and each record's outcome (success or failure,
\* reason, item written) is the one process_message gives for that record
\* alone.  The trace only grows during an invocation, so the outcome of a
\* record is compared when its entry is the newest one.
C3_Isolation ==
    /\ w_pc = "loop" =>
          Len(trace) = idx /\ idx <= Len(event) /\ get_current_timestamp # {}
    /\ w_pc = "returned" => Len(trace) = Len(event) /\ w_result # None
    /\ \A j \in 1..Len(trace) :
          /\ trace[j].messageId = event[j].messageId
          /\ IsListed(event[j].messageId) = ~trace[j].success
    /\ (w_pc = "loop" /\ trace # <<>>) =>
          \E solo \in {SoloOutcome(Len(trace))} :
              /\ trace[Len(trace)].success = solo.success
              /\ trace[Len(trace)].error = solo.error
              /\ trace[Len(trace)].puts = solo.puts
              /\ IsListed(event[Len(trace)].messageId) = ~solo.success

\* A batch whose first record failed and whose later records were processed,
\* one of them successfully
C3_Witness ==
    /\ w_pc = "returned"
    /\ Len(event) = 3
    /\ ~trace[1].success
    /\ trace[2].success
    /\ trace[3].puts # <<>>

\* C10 as stated: every successful processing of a message writes an item
\* identical to the one its first successful processing wrote
C10_IdenticalRewrite ==
    \A i \in 1..Len(trace) :
        trace[i].success =>
            trace[i].puts[1].item = firstWrite[trace[i].messageId].item

\* C10 (amended): every successful processing of a message writes, under the
\* same key, an item equal to the first one in tenant_id, log_id, source,
\* original_text and modified_data; processed_at is read from the clock at each
\* write and is not before the first one; the write replaces the whole item, so
\* right after it the store holds exactly the newly written item under the key.
C10_RewriteUpToTimestamp ==
    \A i \in 1..Len(trace) :
        trace[i].success =>
            LET item == trace[i].puts[1].item
                first == firstWrite[trace[i].messageId].item
                key == <<item.tenant_id, item.log_id>>
            IN /\ [item EXCEPT !.processed_at = 0] = [first EXCEPT !.processed_at = 0]
               /\ item.processed_at >= first.processed_at
               /\ i = Len(trace) => key \in DOMAIN store /\ store[key] = item

\* A message has been processed successfully a second time, at a later clock
\* reading than the first
C10_Witness ==
    \E i \in 1..Len(trace) :
        /\ trace[i].success
        /\ firstWrite[trace[i].messageId].count >= 2
        /\ trace[i].puts[1].item.processed_at >
               firstWrite[trace[i].messageId].item.processed_at

\* A body the worker has nothing to object to: it parses, names a tenant_id
\* and a log_id, and its text, if any, is a string
IsValidMessage(body) ==
    /\ HasRequiredFields(body)
    /\ ("text" \in DOMAIN body.value.d => body.value.d["text"].t = "str")

NotConfigured == <<"DynamoDB table not configured">>

\* C12: when no table is configured, put_item is never called and the store
\* stays empty; every record processed is reported in the failure list, and
\* every record with a valid body fails with the configuration error (the
\* worker has no local mode that would report success without writing).
C12_NoTableFails ==
    ~table =>
        /\ store = <<>>
        /\ firstWrite = <<>>
        /\ \A i \in 1..Len(trace) :
              /\ trace[i].puts = <<>>
              /\ ~trace[i].success
              /\ IsListed(event[i].messageId)
              /\ IsValidMessage(event[i].body) => trace[i].error = NotConfigured
        /\ w_pc = "returned" =>
              Len(w_result.batchItemFailures) = Len(event)

\* Without a table, a batch of the two valid messages has returned with both
\* of them in the failure list
C12_Witness ==
    /\ ~table
    /\ w_pc = "returned"
    /\ Len(event) = 2
    /\ IsValidMessage(event[1].body) /\ IsValidMessage(event[2].body)
    /\ w_result.batchItemFailures =
           <<[itemIdentifier |-> event[1].messageId],
             [itemIdentifier |-> event[2].messageId]>>
    /\ trace[1].error = NotConfigured /\ trace[2].error = NotConfigured

BackendReasons ==
    [ClientError |-> <<"DynamoDB error">>,
     BotoCoreError |-> <<"AWS SDK error">>,
     Exception |-> <<"Unexpected error">>]

\* C13: in one invocation put_item is called at most once for each record, so
\* at most as often as records were processed; when it raises (ClientError,
\* BotoCoreError or any other exception) the record fails with the reason of
\* that class and is put on the failure list, and no second call is made for
\* it: it is written again only when a later invocation receives the message.
C13_NoInternalRetry ==
    /\ SumSeq([i \in 1..Len(trace) |-> Len(trace[i].puts)]) <= idx
    /\ \A i \in 1..Len(trace) :
          /\ Len(trace[i].puts) <= 1
          /\ \A k \in 1..Len(trace[i].puts) :
                LET db == trace[i].puts[k].db
                IN db.kind # "ok" =>
                      /\ ~trace[i].success
                      /\ trace[i].error = BackendReasons[db.kind]
                      /\ IsListed(event[i].messageId)

\* A message written by an earlier invocation has been delivered again, and
\* put_item raised for it and for the other record of the batch, once each
C13_Witness ==
    /\ w_pc = "returned"
    /\ Len(event) = 2
    /\ Len(trace[1].puts) = 1 /\ trace[1].puts[1].db.kind = "ClientError"
    /\ Len(trace[2].puts) = 1 /\ trace[2].puts[1].db.kind = "BotoCoreError"
    /\ event[1].messageId \in DOMAIN firstWrite
    /\ Len(w_result.batchItemFailures) = 2

ValidationReasons ==
    { <<"Invalid JSON">>, <<"Processing error">>, <<"Missing tenant_id">>,
      <<"Missing log_id">> }

\* C17: processing a record whose body does not parse, or whose tenant_id or
\* log_id is missing or empty, fails without a put_item call and changes
\* neither the store nor any item in it.
C17_FailsBeforeWrite ==
    [][(/\ w_pc = "loop"
        /\ idx < Len(event)
        /\ idx' = idx + 1
        /\ ~HasRequiredFields(event[idx + 1].body))
       => /\ store' = store
          /\ firstWrite' = firstWrite
          /\ ~trace'[idx'].success
          /\ trace'[idx'].puts = <<>>
          /\ trace'[idx'].error \in ValidationReasons]_vars

\* With an item in the store, a record naming the same tenant but no log_id
\* has been processed
C17_Witness ==
    /\ store # <<>>
    /\ trace # <<>>
    /\ LET body == event[Len(trace)].body
       IN /\ BodyParses(body)
          /\ "log_id" \notin DOMAIN body.value.d
          /\ \E key \in DOMAIN store : key[1] = body.value.d["tenant_id"]
    /\ ~trace[Len(trace)].success
    /\ trace[Len(trace)].puts = <<>>

---------------------------------------------------------------------------
\* Properties of the queue producer (checked under SpecSqs / SpecSqsFair)

\* The classification of a send_message outcome, read off the outcome
IsNonRetryable(o) ==
    o.kind = "ClientError"
    /\ o.code \in {"InvalidParameterValue", "ValidationError", "AccessDenied"}
IsTransient(o) ==
    \/ o.kind = "ClientError" /\ ~IsNonRetryable(o)
    \/ o.kind = "BotoCoreError"
AllTransient(log) == \A i \in 1..Len(log) : IsTransient(log[i].outcome)

\* C4: with a queue configured, when send_message failed transiently k times
\* in a row and then succeeded, send_to_sqs slept exactly k times, the i-th
\* sleep lasting 100 ms * 2^(i-1), and returned success with the MessageId of
\* the queue's response.
C4_RetryThenSuccess ==
    (/\ SQS_QUEUE_URL
     /\ s_pc = "returned"
     /\ sends # <<>>
     /\ sends[Len(sends)].outcome.kind = "ok"
     /\ AllTransient(SubSeq(sends, 1, Len(sends) - 1)))
    => /\ Len(sleeps) = Len(sends) - 1
       /\ \A i \in 1..Len(sleeps) : sleeps[i] = 100 * Pow2(i - 1)
       /\ s_result = <<TRUE, sends[Len(sends)].outcome.message_id, None>>
       /\ Len(sends) <= max_retries

\* Two transient failures, then a success: two sleeps of 100 ms and 200 ms
C4_Witness ==
    /\ SQS_QUEUE_URL
    /\ s_pc = "returned"
    /\ max_retries = DefaultMaxRetries
    /\ Len(sends) = 3
    /\ IsTransient(sends[1].outcome) /\ IsTransient(sends[2].outcome)
    /\ sends[3].outcome.kind = "ok"
    /\ sleeps = <<100, 200>>
    /\ s_result[1] = TRUE

\* The state part of C5
C5_Bounded ==
    SQS_QUEUE_URL =>
        /\ Len(sends) <= max_retries
        /\ s_pc = "loop" => attempt = Len(sends) /\ attempt < max_retries
        /\ s_pc = "returned" =>
              /\ Len(sends) >= 1
              /\ (AllTransient(sends) =>
                     /\ Len(sends) = max_retries
                     /\ s_result[1] = FALSE
                     /\ s_result[2] = None
                     /\ s_result[3] # None
                     /\ s_result[3].msg = sends[Len(sends)].outcome.msg)

\* C5: with a queue configured, one call of send_to_sqs makes at least one and
\* at most max_retries send_message attempts whatever the errors, the call
\* always returns, and when every attempt failed transiently it returns
\* failure with the error message of the last attempt.
C5_BoundedRetry == [](C5_Bounded) /\ ((s_pc = "loop") ~> (s_pc = "returned"))

\* Every one of the default three attempts failed transiently
C5_Witness ==
    /\ SQS_QUEUE_URL
    /\ s_pc = "returned"
    /\ max_retries = DefaultMaxRetries
    /\ Len(sends) = 3
    /\ AllTransient(sends)
    /\ sends[1].outcome.msg # sends[3].outcome.msg
    /\ s_result[1] = FALSE

\* C6: a send_message error with a non-retryable code ends the call at once:
\* it is the last attempt, the call has returned failure carrying its message,
\* and the only sleeps are those after the transient failures before it.
C6_NonRetryableFailsAtOnce ==
    \A i \in 1..Len(sends) :
        IsNonRetryable(sends[i].outcome) =>
            /\ i = Len(sends)
            /\ s_pc = "returned"
            /\ s_result = <<FALSE, None,
                            SqsError("SQS validation error", 0, sends[i].outcome.msg)>>
            /\ Len(sleeps) = i - 1

\* AccessDenied on the second attempt, after one transient failure
C6_Witness ==
    /\ Len(sends) = 2
    /\ IsTransient(sends[1].outcome)
    /\ sends[2].outcome.code = "AccessDenied"
    /\ s_pc = "returned"
    /\ sleeps = <<100>>

\* C7: without a configured queue every call returns accepted = true with a
\* message id that starts with "local-" and a null error, and neither calls
\* send_message nor sleeps.
C7_LocalMode ==
    ~SQS_QUEUE_URL =>
        /\ sends = <<>>
        /\ sleeps = <<>>
        /\ s_pc # "loop"
        /\ s_pc = "returned" =>
              /\ s_result[1] = TRUE
              /\ s_result[2].t = "str"
              /\ StartsWith(s_result[2].s, LocalTag)
              /\ s_result[3] = None

\* A second call in local mode has returned
C7_Witness ==
    /\ ~SQS_QUEUE_URL
    /\ calls = 2
    /\ s_pc = "returned"
    /\ s_result[1] = TRUE

C16_NeverRaises ==
    /\ s_pc \in {"idle", "loop", "returned"}
    /\ s_pc = "returned" =>
          /\ Len(s_result) = 3
          /\ s_result[1] \in BOOLEAN
          /\ s_result[1] => s_result[3] = None
          /\ ~s_result[1] =>
                /\ s_result[2] = None
                /\ s_result[3] # None
                /\ s_result[3].kind # ""
    /\ \A i \in 1..Len(sends) :
          sends[i].outcome.kind # "ok" =>
              \/ i < Len(sends)
              \/ s_pc = "loop"
              \/ s_pc = "returned" /\ s_result[1] = FALSE

\* After a transient failure, send_message raised an exception that is neither
\* a ClientError nor a BotoCoreError, and the call has returned a failure
C16_Witness ==
    /\ s_pc = "returned"
    /\ Len(sends) = 2
    /\ IsTransient(sends[1].outcome)
    /\ sends[2].outcome.kind = "Exception"
    /\ s_result = <<FALSE, None,
                    SqsError("Unexpected error", 0, sends[2].outcome.msg)>>

---------------------------------------------------------------------------
\* Properties of the tenant validator (checked under SpecTenant)

InTenantCharset(id) ==
    \A i \in 1..Len(id) : id[i] \in Upper \cup Lower \cup Digit \cup {"_", "-"}

TenantReasons ==
    { <<"tenant_id is required">>,
      <<"tenant_id cannot be empty">>,
      <<"tenant_id must be less than 64 characters">>,
      <<"tenant_id must only contain alphanumeric characters, hyphens, or underscores">> }

\* C9 as stated: a string id is accepted exactly when it has 1 to 64
\* characters, all of [A-Za-z0-9_-]; any other character, leading or trailing
\* whitespace included, makes it fail
C9_ValidatesRawId ==
    (v_pc = "done" /\ v_tenant.t = "str") =>
        (v_result[1] <=>
            /\ Len(v_tenant.s) >= 1
            /\ Len(v_tenant.s) <= 64
            /\ InTenantCharset(v_tenant.s))

\* C9 (amended): validate_tenant_id judges the id with its leading and
\* trailing whitespace removed: it succeeds, with no error, exactly when the
\* trimmed id has 1 to 64 characters, all of [A-Za-z0-9_-] (so a valid id
\* padded with whitespace is accepted), and fails with a specific reason
\* otherwise: empty, too long, or a character outside the class.
C9_ValidatesTrimmedId ==
    (v_pc = "done" /\ v_tenant.t = "str") =>
        LET id == Strip(v_tenant.s)
        IN /\ v_result[1] <=>
                 (Len(id) >= 1 /\ Len(id) <= 64 /\ InTenantCharset(id))
           /\ v_result[1] => v_result[2] = <<>>
           /\ ~v_result[1] => v_result[2] \in TenantReasons
           /\ Len(id) = 0 =>
                 v_result[2] \in {<<"tenant_id is required">>,
                                  <<"tenant_id cannot be empty">>}
           /\ Len(id) > 64 =>
                 v_result[2] = <<"tenant_id must be less than 64 characters">>
           /\ (Len(id) \in 1..64 /\ ~InTenantCharset(id)) =>
                 v_result[2] = <<"tenant_id must only contain alphanumeric characters, hyphens, or underscores">>

\* An id of 64 valid characters between two blanks has been accepted
C9_Witness ==
    /\ v_pc = "done"
    /\ v_tenant.t = "str"
    /\ Len(v_tenant.s) = 66
    /\ Len(Strip(v_tenant.s)) = 64
    /\ v_result[1] = TRUE

---------------------------------------------------------------------------
\* Properties of the redactor (checked under SpecRedact)

IsFixedBy(text) ==
    \A k \in 1..Len(redaction_passes) : re_sub(redaction_passes[k], text) = text

\* C11: redaction is idempotent: redacting a redacted text gives the same
\* text; the marker "[REDACTED]" is left alone by every pass (it matches no
\* phone, SSN, email or credit-card pattern), and no pass finds a match in a
\* redacted text, so a replacement made by a later pass never creates a match
\* for an earlier one.
C11_Idempotent ==
    /\ IsFixedBy(REDACTED)
    /\ r_pc \in {"once", "twice"} => IsFixedBy(r_once)
    /\ r_pc = "twice" => r_twice = r_once

\* A text in which two passes each replaced a match, the first replacement
\* ending right where the second begins, has been redacted twice
C11_Witness ==
    /\ r_pc = "twice"
    /\ r_text = PhoneIntl \o Phone7
    /\ r_once = REDACTED \o REDACTED
    /\ r_twice = r_once

---------------------------------------------------------------------------
\* Properties of the ingest endpoint (checked under SpecIngest)

\* The validation rules, read off the request
TenantIsValid(v) ==
    /\ v.t = "str"
    /\ Len(Strip(v.s)) \in 1..64
    /\ InTenantCharset(Strip(v.s))
IsJson(req) == req.content_type \in {"application/json", "application/json; charset=utf-8"}
IsText(req) == req.content_type = "text/plain"
Field(req, name) ==
    IF req.body.value.t = "dict" /\ name \in DOMAIN req.body.value.d
    THEN req.body.value.d[name] ELSE None
RequestIsValid(req) ==
    \/ /\ IsJson(req)
       /\ req.body.wellformed
       /\ req.body.value.t = "dict"
       /\ TenantIsValid(Field(req, "tenant_id"))
       /\ Field(req, "text").t = "str"
       /\ Falsy(Field(req, "log_id")) \/ Field(req, "log_id").t = "str"
    \/ /\ IsText(req)
       /\ "X-Tenant-ID" \in DOMAIN req.headers.d
       /\ TenantIsValid(req.headers.d["X-Tenant-ID"])

\* C14: for every request, send_to_sqs is called at most once, and only for a
\* request that passed tenant and payload validation, with the record built
\* from it; a request that fails validation is answered 400 and one with an
\* unsupported content type 415, both without a send_to_sqs call; after
\* validation, a failed enqueue is answered 500 "Queue unavailable" with
\* retry_after 5 and an accepted one 202 with the record's log_id and
\* tenant_id and the message id.
C14_IngestOutcome ==
    /\ i_enqueues <= 1
    /\ calls = i_enqueues
    /\ calls >= 1 => RequestIsValid(i_request) /\ s_payload = i_normalized
    /\ i_pc = "responded" =>
          IF ~IsJson(i_request) /\ ~IsText(i_request)
          THEN i_response.status = 415 /\ calls = 0
          ELSE IF ~RequestIsValid(i_request)
          THEN i_response.status = 400 /\ calls = 0
          ELSE /\ calls = 1
               /\ s_pc = "returned"
               /\ IF s_result[1]
                  THEN i_response =
                           Response(202, [status |-> "accepted",
                                          log_id |-> s_payload.d["log_id"],
                                          tenant_id |-> s_payload.d["tenant_id"],
                                          message_id |-> s_result[2]])
                  ELSE /\ i_response.status = 500
                       /\ i_response.body.error = "Queue unavailable"
                       /\ i_response.body.retry_after = 5

\* C18: for a JSON object with a valid tenant_id and a string text, a log_id
\* that is present (not null) and not a string is answered 400 "Invalid
\* log_id"; a string log_id is used trimmed; an absent, null or blank log_id
\* is replaced by a generated token.
C18_JsonLogId ==
    (/\ i_pc # "idle"
     /\ IsJson(i_request)
     /\ i_request.body.wellformed
     /\ i_request.body.value.t = "dict"
     /\ TenantIsValid(Field(i_request, "tenant_id"))
     /\ Field(i_request, "text").t = "str")
    => LET log_id == Field(i_request, "log_id")
       IN IF log_id.t \notin {"str", "null"}
          THEN /\ i_pc = "responded"
               /\ i_response.status = 400
               /\ i_response.body.error = "Invalid log_id"
          ELSE /\ i_normalized # None
               /\ IF log_id.t = "str" /\ Strip(log_id.s) # <<>>
                  THEN i_normalized.d["log_id"] = Str(Strip(log_id.s))
                  ELSE i_normalized.d["log_id"] \in {Str(u) : u \in Uuids}

\* C19: the record ingest() hands to send_to_sqs, from a JSON or a plain-text
\* request, carries a tenant_id and a log_id that are non-empty strings; the
\* worker, given the message json.dumps makes of it, never fails on parsing or
\* on a required field: process_message succeeds, or fails in
\* save_to_dynamodb (no table, or put_item raised).
C19_ProducerConsumer ==
    (i_pc = "sending" /\ sends = <<>>) =>
        /\ s_payload = i_normalized
        /\ s_payload.t = "dict"
        /\ s_payload.d["tenant_id"].t = "str" /\ s_payload.d["tenant_id"].s # <<>>
        /\ s_payload.d["log_id"].t = "str" /\ s_payload.d["log_id"].s # <<>>
        /\ \A db \in DbOutcomes :
              \E out \in {process_message(json_dumps(s_payload), db, now)} :
                  /\ out.error \notin ValidationReasons
                  /\ out.success <=> (table /\ db.kind = "ok")
                  /\ table => Len(out.puts) = 1
                  /\ ~table => out.error = NotConfigured

\* A JSON request whose log_id is blank has been handed to send_to_sqs with a
\* generated log_id and its tenant_id trimmed
C19_Witness ==
    /\ i_pc = "sending"
    /\ sends = <<>>
    /\ IsJson(i_request)
    /\ Field(i_request, "log_id") = Str(Blank)
    /\ Field(i_request, "tenant_id") = Str(PaddedT1)
    /\ s_payload.d["log_id"] \in {Str(u) : u \in Uuids}
    /\ s_payload.d["tenant_id"] = Str(T1)

---------------------------------------------------------------------------
\* Properties of the pipeline (checked under SpecPipeline)

AnsweredAccepted(m) == \E r \in accepted : r.message_id = m

\* Message m was processed successfully, writing an item with the tenant_id
\* and log_id of the 202 answer that names m and the text submitted
WrittenAsAccepted(m) ==
    /\ m \in DOMAIN firstWrite
    /\ \E r \in accepted :
          /\ r.message_id = m
          /\ firstWrite[m].item.tenant_id = r.tenant_id
          /\ firstWrite[m].item.log_id = r.log_id
          /\ firstWrite[m].item.original_text = r.text

\* C15: with a queue and a table configured, the queue redelivering what
\* batchItemFailures names and the table accepting a write eventually, every
\* record that POST /ingest answered 202 for is eventually written to the
\* store, as an item with the record's tenant_id and log_id and the submitted
\* text as original_text.
C15_AtLeastOnce ==
    \A m \in MessageIdsOfQueue : AnsweredAccepted(m) ~> WrittenAsAccepted(m)

\* Two requests for the same key with different texts were answered 202, the
\* worker has written an item for each with the text submitted, the second
\* write replaced the first in the store, and the queue is drained
C15_Witness ==
    /\ Cardinality(accepted) = 2
    /\ \E a, b \in accepted :
          /\ a.text # b.text
          /\ a.tenant_id = b.tenant_id /\ a.log_id = b.log_id
          /\ WrittenAsAccepted(a.message_id)
          /\ WrittenAsAccepted(b.message_id)
          /\ store[<<a.tenant_id, a.log_id>>].original_text = b.text
    /\ queue = {}

=============================================================================
